---------------------------- MODULE Spec2Model ----------------------------
(*
  Model of rulm/nnlm.py: the line encoder (process_line), the batch
  assembler (preprocess_batch), the training / evaluation step functions,
  the train_file control loop with its validation and checkpoint handlers,
  and predict.

  Four independent parts of the program share this module, each with its
  own specification:
    Spec / FairSpec  train_file driving the trainer and evaluator engines
    SpecLine         process_line on one line
    SpecBatch        preprocess_batch on one batch
    SpecPredict      predict on one sequence of indices
*)
EXTENDS Integers, Sequences, FiniteSets

\* ------------------------------------------------------------------ bounds
MaxEpochs == 5
MaxBatches == 2
MaxEvery == 3
MaxLineLen == 5
MaxLength == 4
MaxBatchSize == 2
MaxWidth == 2
MaxToken == 2
MaxTime == 2
VocabSize == 2

\* The padding index that preprocess_batch compares against and zero-fills with.
PaddingIndex == 0

VARIABLES
    \* ---- train_file
    pc,            \* position of the train_file call
    args,          \* the arguments of the call
    model,         \* self.model: parameters, mode flag, gradients
    optimizer,     \* the Adam optimizer built at line 105
    built,         \* what train_file has constructed so far
    trainer,       \* trainer.state (epoch, iteration) and the loader position
    evaluator,     \* evaluator.state of the running evaluation pass
    checkpointer,  \* the ModelCheckpoint handler, when one is attached
    disk,          \* checkpoint_dir on disk: created?, files present
    hist,          \* what has happened: steps, inferences, reports, writes
    \* ---- process_line
    lpc, line, max_length, reverse, encoded,
    \* ---- preprocess_batch
    bpc, batch, out,
    \* ---- predict
    ppc, indices, layout, logits, fed, result

trainVars == <<pc, args, model, optimizer, built, trainer, evaluator,
               checkpointer, disk, hist>>
lineVars == <<lpc, line, max_length, reverse, encoded>>
batchVars == <<bpc, batch, out>>
predVars == <<ppc, indices, layout, logits, fed, result>>
vars == <<trainVars, lineVars, batchVars, predVars>>

\* ------------------------------------------------------- train_file: state
NoArgs == [file_exists |-> FALSE, epochs |-> 0, batches |-> 0,
           checkpoint_dir |-> FALSE, checkpoint_every |-> 1,
           report_every |-> 1, validate_every |-> 1]

\* A freshly constructed module: training mode, parameters as initialised
\* (params counts the optimizer updates applied to them), no gradients
\* (grad names the batch of the last backward pass, batches counting from 1).
InitModel == [params |-> 0, training |-> TRUE, grad |-> 0]

NoOptimizer == [created |-> FALSE, steps |-> 0]

NothingBuilt == [dataset |-> FALSE, loader |-> FALSE, trainer |-> FALSE,
                 evaluator |-> FALSE]

IdleEngine == [epoch |-> 0, iteration |-> 0, max_epochs |-> 0, pos |-> 0]

NoCheckpointer == [attached |-> FALSE, iteration |-> 0, save_interval |-> 1,
                   saved |-> <<>>]

EmptyDisk == [dir |-> FALSE, files |-> {}]

NoHistory == [steps |-> <<>>, epochs_done |-> 0, inferences |-> 0,
              reports |-> <<>>, writes |-> <<>>]

TrainInit ==
    /\ pc = "idle"
    /\ args = NoArgs
    /\ model = InitModel
    /\ optimizer = NoOptimizer
    /\ built = NothingBuilt
    /\ trainer = IdleEngine
    /\ evaluator = IdleEngine
    /\ checkpointer = NoCheckpointer
    /\ disk = EmptyDisk
    /\ hist = NoHistory

\* --------------------------------------------------- train_file: operators

\* Variant: the precondition is not checked.
AssertionSkipped(a) == TRUE

\* assert os.path.exists(file_name)
AssertPathExists(a) == a.file_exists

\* _update: one optimization step on a batch.
UpdateStep(m, o, b) ==
    [model |-> [params |-> m.params + 1, training |-> TRUE, grad |-> b],
     optimizer |-> [o EXCEPT !.steps = @ + 1]]

\* Variant: the evaluator runs the training step.
InferenceUpdates(m, o, b) == UpdateStep(m, o, b)

\* _inference: a forward pass in evaluation mode under no_grad.
InferenceStep(m, o, b) ==
    [model |-> [m EXCEPT !.training = FALSE], optimizer |-> o]

\* Variant: the epoch loop runs once more.
LoopOneMore(t) == t.epoch <= t.max_epochs

\* Engine.run: while self.state.epoch < max_epochs
EpochLoopContinues(t) == t.epoch < t.max_epochs

\* Variant: the gate reads report_every.
GateOnReportEvery(t, a) == t.iteration % a.report_every = 0

\* validate: if trainer.state.iteration % validate_every == 0
ValidateGate(t, a) == t.iteration % a.validate_every = 0

\* ModelCheckpoint(checkpoint_dir, "model", save_interval=checkpoint_every,
\* create_dir=True): the handler counts its calls and saves on every
\* save_interval-th one.
NewCheckpointer(a) ==
    [attached |-> TRUE, iteration |-> 0,
     save_interval |-> a.checkpoint_every, saved |-> <<>>]

\* Variant: the handler tests its counter before counting the call.
SaveBeforeCount(c) == (c.iteration - 1) % c.save_interval = 0

\* The handler saves on every save_interval-th call.
SaveDue(c) == c.iteration % c.save_interval = 0

\* Number of checkpoints ModelCheckpoint keeps (its n_saved default); older
\* files are removed after a newer one is written.
KeepLast(s) == IF Len(s) > 1 THEN Tail(s) ELSE s

\* ----------------------------------------------------- train_file: actions

\* The call up to trainer.run: precondition, dataset, loader, optimizer,
\* engines, checkpoint handler.
TrainFile ==
    /\ pc = "idle"
    /\ \E fe \in BOOLEAN, ep \in 0..MaxEpochs, nb \in 0..MaxBatches,
          cd \in BOOLEAN, ce \in 1..MaxEvery, re \in 1..MaxEvery,
          ve \in 1..MaxEvery :
         LET a == [file_exists |-> fe, epochs |-> ep, batches |-> nb,
                   checkpoint_dir |-> cd, checkpoint_every |-> ce,
                   report_every |-> re, validate_every |-> ve]
         IN /\ args' = a
            /\ IF ~AssertPathExists(a)
               THEN /\ pc' = "failed"
                    /\ UNCHANGED <<model, optimizer, built, trainer,
                                   evaluator, checkpointer, disk, hist>>
               ELSE /\ pc' = "epoch_loop"
                    /\ built' = [dataset |-> TRUE, loader |-> TRUE,
                                 trainer |-> TRUE, evaluator |-> TRUE]
                    /\ optimizer' = [created |-> TRUE, steps |-> 0]
                    /\ trainer' = [IdleEngine EXCEPT !.max_epochs = ep]
                    /\ checkpointer' = IF cd THEN NewCheckpointer(a)
                                             ELSE checkpointer
                    /\ disk' = IF cd THEN [disk EXCEPT !.dir = TRUE] ELSE disk
                    /\ UNCHANGED <<model, evaluator, hist>>
    /\ UNCHANGED <<lineVars, batchVars, predVars>>

\* Engine.run: the next epoch starts.
EpochStarted ==
    /\ pc = "epoch_loop"
    /\ EpochLoopContinues(trainer)
    /\ trainer' = [trainer EXCEPT !.epoch = @ + 1, !.pos = 0]
    /\ pc' = "iterate"
    /\ UNCHANGED <<args, model, optimizer, built, evaluator, checkpointer,
                   disk, hist>>
    /\ UNCHANGED <<lineVars, batchVars, predVars>>

\* Engine._run_once_on_dataset: the next batch goes through _update.
Update ==
    /\ pc = "iterate"
    /\ trainer.pos < args.batches
    /\ LET b == trainer.pos + 1
           r == UpdateStep(model, optimizer, b)
       IN /\ model' = r.model
          /\ optimizer' = r.optimizer
          /\ trainer' = [trainer EXCEPT !.iteration = @ + 1, !.pos = b]
          /\ hist' = [hist EXCEPT !.steps = Append(@, <<trainer.epoch, b>>)]
    /\ pc' = "iteration_completed"
    /\ UNCHANGED <<args, built, evaluator, checkpointer, disk>>
    /\ UNCHANGED <<lineVars, batchVars, predVars>>

\* validate, on ITERATION_COMPLETED: the gate, and the start of evaluator.run.
Validate ==
    /\ pc = "iteration_completed"
    /\ IF ValidateGate(trainer, args)
       THEN /\ pc' = "evaluating"
            /\ evaluator' = [epoch |-> 1, iteration |-> 0, max_epochs |-> 1,
                             pos |-> 0]
       ELSE /\ pc' = "iterate"
            /\ UNCHANGED evaluator
    /\ UNCHANGED <<args, model, optimizer, built, trainer, checkpointer,
                   disk, hist>>
    /\ UNCHANGED <<lineVars, batchVars, predVars>>

\* evaluator.run(loader): the next batch goes through _inference.
Inference ==
    /\ pc = "evaluating"
    /\ evaluator.pos < args.batches
    /\ LET b == evaluator.pos + 1
           r == InferenceStep(model, optimizer, b)
       IN /\ model' = r.model
          /\ optimizer' = r.optimizer
          /\ evaluator' = [evaluator EXCEPT !.iteration = @ + 1, !.pos = b]
          /\ hist' = [hist EXCEPT !.inferences = @ + 1]
    /\ pc' = "evaluating"
    /\ UNCHANGED <<args, built, trainer, checkpointer, disk>>
    /\ UNCHANGED <<lineVars, batchVars, predVars>>

\* validate, after evaluator.run returned: the metrics are printed.
Report ==
    /\ pc = "evaluating"
    /\ evaluator.pos = args.batches
    /\ hist' = [hist EXCEPT
                  !.reports = Append(@, [epoch |-> trainer.epoch,
                                         iteration |-> trainer.iteration])]
    /\ pc' = "iterate"
    /\ UNCHANGED <<args, model, optimizer, built, trainer, evaluator,
                   checkpointer, disk>>
    /\ UNCHANGED <<lineVars, batchVars, predVars>>

\* EPOCH_COMPLETED: the checkpoint handler, when one is attached.
EpochCompleted ==
    /\ pc = "iterate"
    /\ trainer.pos = args.batches
    /\ LET h == [hist EXCEPT !.epochs_done = @ + 1]
       IN IF ~checkpointer.attached
          THEN /\ hist' = h
               /\ UNCHANGED <<checkpointer, disk>>
          ELSE LET c == [checkpointer EXCEPT !.iteration = @ + 1]
                   s == Append(c.saved, c.iteration)
               IN IF SaveDue(c)
                  THEN /\ checkpointer' = [c EXCEPT !.saved = KeepLast(s)]
                       /\ disk' = [disk EXCEPT !.files =
                             {f \in @ \cup {c.iteration} :
                                \E i \in 1..Len(KeepLast(s)) :
                                   KeepLast(s)[i] = f}]
                       /\ hist' = [h EXCEPT
                                     !.writes = Append(@, trainer.epoch)]
                  ELSE /\ checkpointer' = c
                       /\ hist' = h
                       /\ UNCHANGED disk
    /\ pc' = "epoch_loop"
    /\ UNCHANGED <<args, model, optimizer, built, trainer, evaluator>>
    /\ UNCHANGED <<lineVars, batchVars, predVars>>

\* Engine.run: max_epochs epochs are over, run returns.
Completed ==
    /\ pc = "epoch_loop"
    /\ ~EpochLoopContinues(trainer)
    /\ pc' = "done"
    /\ UNCHANGED <<args, model, optimizer, built, trainer, evaluator,
                   checkpointer, disk, hist>>
    /\ UNCHANGED <<lineVars, batchVars, predVars>>

\* ------------------------------------------------------------ process_line

\* The characters a line is made of: a blank and two letters.
Chars == {" ", "a", "b"}

RECURSIVE SeqsUpTo(_, _)
SeqsUpTo(S, n) ==
    IF n = 0 THEN {<<>>}
    ELSE LET shorter == SeqsUpTo(S, n - 1)
         IN shorter \cup {Append(q, e) : q \in shorter, e \in S}

SeqsOfLen(S, n) == {q \in SeqsUpTo(S, n) : Len(q) = n}

\* line.strip().split(): the maximal runs of non-blank characters, in order.
RECURSIVE SplitFrom(_, _, _, _)
SplitFrom(l, i, word, words) ==
    IF i > Len(l)
    THEN IF word = <<>> THEN words ELSE Append(words, word)
    ELSE IF l[i] = " "
         THEN SplitFrom(l, i + 1, <<>>,
                        IF word = <<>> THEN words ELSE Append(words, word))
         ELSE SplitFrom(l, i + 1, Append(word, l[i]), words)

Split(l) == SplitFrom(l, 1, <<>>, <<>>)

\* The vocabulary: two known words, the unknown-token index for every other
\* word, the end-of-sequence index.
IndexOfA == 2
IndexOfB == 3
UnkIndex == 1
EosIndex == 4

WordIndex(w) ==
    IF w = <<"a">> THEN IndexOfA
    ELSE IF w = <<"b">> THEN IndexOfB
    ELSE UnkIndex

Reversed(q) == [i \in 1..Len(q) |-> q[Len(q) + 1 - i]]

\* vocabulary.numericalize_inputs(words, reverse)
NumericalizeInputs(words, rev) ==
    LET ws == IF rev THEN Reversed(words) ELSE words
    IN [i \in 1..Len(ws) |-> WordIndex(ws[i])]

\* vocabulary.get_eos()
GetEos == EosIndex

\* vocabulary.pad_indices(indices, max_length)
PadIndices(ids, n) ==
    IF Len(ids) >= n
    THEN SubSeq(ids, 1, n)
    ELSE ids \o [i \in 1..(n - Len(ids)) |-> PaddingIndex]

\* Variant: padding before the end-of-sequence index is appended.
PadThenAppendEos(l, n, rev) ==
    Append(PadIndices(NumericalizeInputs(Split(l), rev), n), GetEos)

\* process_line: words, indices, end-of-sequence index, padding.
process_line(l, n, rev) ==
    PadIndices(Append(NumericalizeInputs(Split(l), rev), GetEos), n)

LineOff ==
    /\ lpc = "off"
    /\ line = <<>>
    /\ max_length = 0
    /\ reverse = FALSE
    /\ encoded = <<>>

LineInit ==
    /\ lpc = "call"
    /\ line \in SeqsUpTo(Chars, MaxLineLen)
    /\ max_length \in 0..MaxLength
    /\ reverse \in BOOLEAN
    /\ encoded = <<>>

ProcessLine ==
    /\ lpc = "call"
    /\ encoded' = process_line(line, max_length, reverse)
    /\ lpc' = "done"
    /\ UNCHANGED <<line, max_length, reverse>>
    /\ UNCHANGED <<trainVars, batchVars, predVars>>

\* -------------------------------------------------------- preprocess_batch

\* lengths = [len([elem for elem in sample if elem != 0]) ...]
EffectiveLength(sample) ==
    Cardinality({t \in 1..Len(sample) : sample[t] # PaddingIndex})

Lengths(b) == [i \in 1..Len(b) |-> EffectiveLength(b[i])]

\* max(lengths)
MaxOf(ls) == CHOOSE m \in {ls[i] : i \in 1..Len(ls)} :
                \A i \in 1..Len(ls) : ls[i] <= m

\* zip(batch, lengths)
Zip(b, ls) == [i \in 1..Len(b) |-> [sample |-> b[i], length |-> ls[i]]]

\* One insertion of a stable descending sort: e goes behind every pair
\* whose length is at least its own.
InsertDesc(q, e) ==
    LET ahead == Cardinality({i \in 1..Len(q) : q[i].length >= e.length})
    IN SubSeq(q, 1, ahead) \o <<e>> \o SubSeq(q, ahead + 1, Len(q))

\* Variant: a stable ascending sort, reversed afterwards.
InsertAsc(q, e) ==
    LET ahead == Cardinality({i \in 1..Len(q) : q[i].length <= e.length})
    IN SubSeq(q, 1, ahead) \o <<e>> \o SubSeq(q, ahead + 1, Len(q))

RECURSIVE SortedAsc(_)
SortedAsc(zs) ==
    IF zs = <<>> THEN <<>>
    ELSE InsertAsc(SortedAsc(SubSeq(zs, 1, Len(zs) - 1)), zs[Len(zs)])

\* sorted(pairs, key=lambda x: x[1])[::-1] instead of reverse=True
SortedThenReversed(zs) == Reversed(SortedAsc(zs))

\* sorted(zip(batch, lengths), key=lambda x: x[1], reverse=True)
RECURSIVE SortedPairs(_)
SortedPairs(zs) ==
    IF zs = <<>> THEN <<>>
    ELSE InsertDesc(SortedPairs(SubSeq(zs, 1, Len(zs) - 1)), zs[Len(zs)])

\* Variant: the samples keep their input width.
KeepWidth(pairs, w) == [i \in 1..Len(pairs) |-> pairs[i].sample]

\* [sample[:max_length] for sample, _ in pairs]
Truncated(pairs, w) ==
    [i \in 1..Len(pairs) |->
        SubSeq(pairs[i].sample, 1,
               IF w < Len(pairs[i].sample) THEN w ELSE Len(pairs[i].sample))]

\* Variant: the targets are rolled, the first entry wrapping to the end.
RolledTargets(m) ==
    [i \in 1..Len(m) |->
        [t \in 1..Len(m[i]) |->
            IF t < Len(m[i]) THEN m[i][t + 1] ELSE m[i][1]]]

\* y = np.zeros(shape); y[:, :-1] = batch[:, 1:]
ShiftedTargets(m) ==
    [i \in 1..Len(m) |->
        [t \in 1..Len(m[i]) |->
            IF t < Len(m[i]) THEN m[i][t + 1] ELSE PaddingIndex]]

\* torch.transpose(batch, 0, 1) of a matrix of w columns
Transposed(m, w) == [t \in 1..w |-> [i \in 1..Len(m) |-> m[i][t]]]

preprocess_batch(b) ==
    LET lengths == Lengths(b)
        w == MaxOf(lengths)
        pairs == SortedPairs(Zip(b, lengths))
        m == Truncated(pairs, w)
    IN [x |-> Transposed(m, IF m = <<>> THEN 0 ELSE Len(m[1])),
        y |-> ShiftedTargets(m)]

NoBatch == [x |-> <<>>, y |-> <<>>]

BatchOff ==
    /\ bpc = "off"
    /\ batch = <<>>
    /\ out = NoBatch

\* A batch the loader hands over: 1..MaxBatchSize samples of one width.
BatchInit ==
    /\ bpc = "call"
    /\ \E n \in 1..MaxBatchSize, w \in 0..MaxWidth :
          batch \in SeqsOfLen(SeqsOfLen(0..MaxToken, w), n)
    /\ out = NoBatch

PreprocessBatch ==
    /\ bpc = "call"
    /\ out' = preprocess_batch(batch)
    /\ bpc' = "done"
    /\ UNCHANGED batch
    /\ UNCHANGED <<trainVars, lineVars, predVars>>

\* ------------------------------------------------------------------ predict

\* A tensor: its shape, and its entries by index tuple (indices from 1).
RECURSIVE IndexTuples(_)
IndexTuples(shape) ==
    IF shape = <<>> THEN {<<>>}
    ELSE {<<k>> \o rest : k \in 1..shape[1], rest \in IndexTuples(Tail(shape))}

EmptyTensor == [shape |-> <<0>>, at |-> [ix \in {} |-> 0]]

\* A tuple with the entries at (0-based) places d0 and d1 exchanged.
Swapped(q, d0, d1) ==
    [k \in 1..Len(q) |-> IF k = d0 + 1 THEN q[d1 + 1]
                         ELSE IF k = d1 + 1 THEN q[d0 + 1]
                         ELSE q[k]]

\* LongTensor(indices): a 1-d tensor of the indices
FromList(q) ==
    [shape |-> <<Len(q)>>,
     at |-> [ix \in IndexTuples(<<Len(q)>>) |-> q[ix[1]]]]

\* torch.unsqueeze(t, dim)
Unsqueeze(t, dim) ==
    LET shape == SubSeq(t.shape, 1, dim) \o <<1>>
                 \o SubSeq(t.shape, dim + 1, Len(t.shape))
    IN [shape |-> shape,
        at |-> [ix \in IndexTuples(shape) |->
                  t.at[SubSeq(ix, 1, dim) \o SubSeq(ix, dim + 2, Len(ix))]]]

\* t.transpose(d0, d1)
Transpose(t, d0, d1) ==
    LET shape == Swapped(t.shape, d0, d1)
    IN [shape |-> shape,
        at |-> [ix \in IndexTuples(shape) |-> t.at[Swapped(ix, d0, d1)]]]

\* torch.squeeze(t, dim): drops the dimension when its size is 1
Squeeze(t, dim) ==
    IF t.shape[dim + 1] # 1 THEN t
    ELSE LET shape == SubSeq(t.shape, 1, dim)
                      \o SubSeq(t.shape, dim + 2, Len(t.shape))
         IN [shape |-> shape,
             at |-> [ix \in IndexTuples(shape) |->
                       t.at[SubSeq(ix, 1, dim) \o <<1>>
                            \o SubSeq(ix, dim + 1, Len(ix))]]]

\* t[0]
FirstAlongLeading(t) ==
    [shape |-> Tail(t.shape),
     at |-> [ix \in IndexTuples(Tail(t.shape)) |-> t.at[<<1>> \o ix]]]

\* t[-1]
LastAlongLeading(t) ==
    [shape |-> Tail(t.shape),
     at |-> [ix \in IndexTuples(Tail(t.shape)) |->
               t.at[<<t.shape[1]>> \o ix]]]

\* Log-probabilities, in units of ln 2.
LogProbs == {-1, 0}

\* exp of a log-probability l * ln 2, as the fraction 1 / 2^(-l)
Exp(l) == [num |-> 1, den |-> 2 ^ (0 - l)]

\* torch.exp(t)
ExpOf(t) ==
    [shape |-> t.shape,
     at |-> [ix \in IndexTuples(t.shape) |-> Exp(t.at[ix])]]

\* The input predict hands to self.model.forward.
ForwardInput(ids) == Unsqueeze(FromList(ids), 1)

\* Variant: the first time step is taken.
FirstStepDistribution(output) ==
    ExpOf(FirstAlongLeading(
        Squeeze(Transpose(Transpose(output, 1, 2), 0, 1), 1)))

\* What predict makes of the output of self.model.forward.
PredictOutput(output) ==
    ExpOf(LastAlongLeading(
        Squeeze(Transpose(Transpose(output, 1, 2), 0, 1), 1)))

\* The shape of the model's output for T time steps of one sample, by the
\* layout the model uses.
OutputShape(lay, T) ==
    IF lay = "time_batch_vocab" THEN <<T, 1, VocabSize>>
    ELSE <<1, VocabSize, T>>

PredOff ==
    /\ ppc = "off"
    /\ indices = <<>>
    /\ layout = "batch_vocab_time"
    /\ logits = EmptyTensor
    /\ fed = EmptyTensor
    /\ result = EmptyTensor

\* A non-empty sequence of indices, and a model: its layout and the
\* log-probabilities it returns for the sequence.
PredInit ==
    /\ ppc = "call"
    /\ \E T \in 1..MaxTime :
          /\ indices \in SeqsOfLen(0..(VocabSize - 1), T)
          /\ layout \in {"time_batch_vocab", "batch_vocab_time"}
          /\ \E f \in [IndexTuples(OutputShape(layout, T)) -> LogProbs] :
                logits = [shape |-> OutputShape(layout, T), at |-> f]
    /\ fed = EmptyTensor
    /\ result = EmptyTensor

Predict ==
    /\ ppc = "call"
    /\ fed' = ForwardInput(indices)
    /\ result' = PredictOutput(logits)
    /\ ppc' = "done"
    /\ UNCHANGED <<indices, layout, logits>>
    /\ UNCHANGED <<trainVars, lineVars, batchVars>>

\* ----------------------------------------------------------- specifications

Init == TrainInit /\ LineOff /\ BatchOff /\ PredOff

Next ==
    \/ TrainFile
    \/ EpochStarted
    \/ Update
    \/ Validate
    \/ Inference
    \/ Report
    \/ EpochCompleted
    \/ Completed

Spec == Init /\ [][Next]_vars

\* The engine is one thread that runs until run() returns: it never stops
\* between two steps.
FairSpec == Spec /\ WF_vars(Next)

InitLine == TrainInit /\ LineInit /\ BatchOff /\ PredOff
NextLine == ProcessLine
SpecLine == InitLine /\ [][NextLine]_vars

InitBatch == TrainInit /\ LineOff /\ BatchInit /\ PredOff
NextBatch == PreprocessBatch
SpecBatch == InitBatch /\ [][NextBatch]_vars

InitPredict == TrainInit /\ LineOff /\ BatchOff /\ PredInit
NextPredict == Predict
SpecPredict == InitPredict /\ [][NextPredict]_vars

\* ------------------------------------------------------ train_file: claims

Started == pc \notin {"idle", "failed"}

\* The multiples of every among 1..n, ascending.
MultiplesUpTo(n, every) ==
    SelectSeq([e \in 1..n |-> e], LAMBDA e : e % every = 0)

\* C1: with checkpoint_dir set, the epochs at whose completion a checkpoint
\* was written are exactly the completed epochs e with
\* e % checkpoint_every = 0, all of 1..epochs once the run is over; with
\* checkpoint_every = 2 and epochs = 5 these are epochs 2 and 4.
C1_CheckpointEveryNth ==
    (Started /\ args.checkpoint_dir) =>
        /\ hist.writes = MultiplesUpTo(hist.epochs_done, args.checkpoint_every)
        /\ pc = "done" =>
              hist.writes = MultiplesUpTo(args.epochs, args.checkpoint_every)
        /\ (pc = "done" /\ args.checkpoint_every = 2 /\ args.epochs = 5) =>
              hist.writes = <<2, 4>>

C1_Witness ==
    /\ pc = "done"
    /\ args.checkpoint_dir
    /\ args.checkpoint_every = 2
    /\ args.epochs = 5
    /\ hist.writes = <<2, 4>>

\* The iterations whose ITERATION_COMPLETED handler has run to its end.
Handled ==
    IF pc \in {"iteration_completed", "evaluating"}
    THEN trainer.iteration - 1
    ELSE trainer.iteration

\* C2: the iterations after which a report was printed are exactly the
\* handled iterations i with i % validate_every = 0, one report each,
\* carrying the epoch and iteration; every report follows a pass of the
\* evaluator over all batches of the loader, and no other evaluation step
\* happens; report_every plays no part.
C2_ValidateEveryNth ==
    Started =>
        /\ [k \in 1..Len(hist.reports) |-> hist.reports[k].iteration]
              = MultiplesUpTo(Handled, args.validate_every)
        /\ \A k \in 1..Len(hist.reports) :
              hist.reports[k].epoch =
                 ((hist.reports[k].iteration - 1) \div args.batches) + 1
        /\ hist.inferences =
              args.batches * Len(hist.reports)
              + (IF pc = "evaluating" THEN evaluator.pos ELSE 0)

C2_Witness ==
    /\ pc = "iterate"
    /\ args.validate_every = 2
    /\ args.report_every = 1
    /\ args.batches = 2
    /\ trainer.iteration = 3
    /\ Len(hist.reports) = 1
    /\ hist.inferences = 2

\* C3: a call with a missing input file has failed, and nothing was built,
\* stepped, evaluated or written, and the model is as it was.
C3_MissingFileFailsFast ==
    (pc # "idle" /\ ~args.file_exists) =>
        /\ pc = "failed"
        /\ built = NothingBuilt
        /\ optimizer = NoOptimizer
        /\ model = InitModel
        /\ trainer = IdleEngine
        /\ evaluator = IdleEngine
        /\ checkpointer = NoCheckpointer
        /\ disk = EmptyDisk
        /\ hist = NoHistory

C3_Witness ==
    /\ pc = "failed"
    /\ ~args.file_exists
    /\ args.epochs > 0
    /\ args.batches > 0

\* C4: a step taken while the validate handler runs (its gate, each
\* _inference of the evaluation pass, the report) leaves the parameters and
\* the optimizer as they are; they change only in a training step.
C4_EvaluationReadOnly ==
    [][/\ pc \in {"iteration_completed", "evaluating"} =>
              (model.params' = model.params /\ optimizer' = optimizer)
       /\ (Started /\ (model.params' # model.params \/ optimizer' # optimizer))
              => (pc = "iterate" /\ pc' = "iteration_completed")]_vars

C4_Witness ==
    /\ pc = "evaluating"
    /\ evaluator.pos = 2
    /\ model.params = 3
    /\ optimizer.steps = 3
    /\ ~model.training

\* One training step per batch per epoch, in order.
AllSteps(e, b) ==
    [k \in 1..(e * b) |-> <<((k - 1) \div b) + 1, ((k - 1) % b) + 1>>]

\* C5: a call that got past the precondition ends; when it has ended
\* exactly `epochs` epochs have completed, with one training step per batch
\* per epoch and none after; without checkpoint_dir nothing is ever written.
C5_EndsAfterEpochs ==
    /\ [](pc = "epoch_loop" => <>(pc = "done"))
    /\ [](pc = "done" =>
            /\ hist.epochs_done = args.epochs
            /\ trainer.epoch = args.epochs
            /\ hist.steps = AllSteps(args.epochs, args.batches)
            /\ optimizer.steps = args.epochs * args.batches)
    /\ [](~args.checkpoint_dir => (hist.writes = <<>> /\ disk = EmptyDisk))

C5_Witness ==
    /\ pc = "done"
    /\ ~args.checkpoint_dir
    /\ args.epochs = 3
    /\ args.batches = 2
    /\ Len(hist.steps) = 6

\* ---------------------------------------------------- process_line: claims

\* C8: the encoding of a line has exactly max_length entries: the indices of
\* its words, then the end-of-sequence index, then padding, cut off after
\* the first max_length entries.
C8_FixedWidthEncoding ==
    lpc = "done" =>
        LET ids == NumericalizeInputs(Split(line), reverse)
            n == Len(ids)
        IN /\ Len(encoded) = max_length
           /\ \A i \in 1..max_length :
                 encoded[i] = IF i <= n THEN ids[i]
                              ELSE IF i = n + 1 THEN GetEos
                              ELSE PaddingIndex

\* A line of three words cut to two entries.
C8_Witness ==
    /\ lpc = "done"
    /\ Len(Split(line)) = 3
    /\ max_length = 2
    /\ encoded = <<IndexOfA, IndexOfB>>

\* ------------------------------------------------ preprocess_batch: claims

Perms(n) == {p \in [1..n -> 1..n] : \A i, j \in 1..n : i # j => p[i] # p[j]}

\* The working length, counted on the input batch.
WorkingLength ==
    CHOOSE w \in 0..Len(batch[1]) :
       /\ \A i \in 1..Len(batch) :
             Cardinality({t \in 1..Len(batch[i]) : batch[i][t] # 0}) <= w
       /\ \E i \in 1..Len(batch) :
             Cardinality({t \in 1..Len(batch[i]) : batch[i][t] # 0}) = w

NonZeros(q) == Cardinality({t \in 1..Len(q) : q[t] # 0})

\* Sample i of the output: column i of the time-major x.
OutSample(i) == [t \in 1..Len(out.x) |-> out.x[t][i]]

\* Zeros only behind the last non-zero entry.
RightPadded(q) == \A t \in 1..Len(q) : q[t] = 0 => \A u \in t..Len(q) : q[u] = 0

\* C6 as stated: y[i][t] = x[i][t+1] before the last position, and the last
\* position of y[i] holds the padding index, x and y being the fields of the
\* batch.
C6_AsStated ==
    bpc = "done" =>
        \A i \in 1..Len(out.y) : \A t \in 1..Len(out.y[i]) :
            IF t < Len(out.y[i])
            THEN /\ i \in DOMAIN out.x
                 /\ t + 1 \in DOMAIN out.x[i]
                 /\ out.y[i][t] = out.x[i][t + 1]
            ELSE out.y[i][t] = PaddingIndex

\* C6: y is sample-major and x time-major: with W the working length (the
\* time dimension of x, and the width of y), y[i][t] = x[t+1][i] before
\* position W, and y[i][W] holds the padding index.
C6_ShiftedTargets ==
    bpc = "done" =>
        /\ Len(out.y) = Len(batch)
        /\ \A i \in 1..Len(out.y) :
              /\ Len(out.y[i]) = Len(out.x)
              /\ \A t \in 1..Len(out.x) :
                    out.y[i][t] = IF t < Len(out.x) THEN out.x[t + 1][i]
                                  ELSE PaddingIndex

C6_Witness ==
    /\ bpc = "done"
    /\ Len(out.x) = 2
    /\ Len(out.y) = 2
    /\ out.x[1] # out.x[2]
    /\ out.y[1][1] # 0
    /\ out.y[2][1] # 0

\* C7: the output samples are the input samples (cut to the working length)
\* in an order of descending effective length in which samples of equal
\* effective length keep their input order; one sample, or samples of one
\* effective length, come out in input order; and where the input is padded
\* on the right only, the effective lengths of the output samples descend.
C7_StableDescending ==
    bpc = "done" =>
        LET n == Len(batch)
            w == Len(out.x)
        IN /\ Len(out.y) = n
           /\ \A t \in 1..w : Len(out.x[t]) = n
           /\ \E p \in Perms(n) :
                 /\ \A i \in 1..n : OutSample(i) = SubSeq(batch[p[i]], 1, w)
                 /\ \A i, j \in 1..n : i < j =>
                       /\ NonZeros(batch[p[i]]) >= NonZeros(batch[p[j]])
                       /\ NonZeros(batch[p[i]]) = NonZeros(batch[p[j]])
                             => p[i] < p[j]
           /\ (\A i, j \in 1..n : NonZeros(batch[i]) = NonZeros(batch[j])) =>
                 \A i \in 1..n : OutSample(i) = SubSeq(batch[i], 1, w)
           /\ (\A i \in 1..n : RightPadded(batch[i])) =>
                 \A i, j \in 1..n : i < j =>
                    NonZeros(OutSample(i)) >= NonZeros(OutSample(j))

\* Two different samples of one effective length behind a shorter one.
C7_Witness ==
    /\ bpc = "done"
    /\ Len(batch) = 2
    /\ NonZeros(batch[1]) = NonZeros(batch[2])
    /\ NonZeros(batch[1]) >= 1
    /\ batch[1] # batch[2]
    /\ RightPadded(batch[1])
    /\ RightPadded(batch[2])
    /\ OutSample(1) = batch[1]
    /\ OutSample(2) = batch[2]

\* C10: x has as many time steps as the largest effective length of the
\* batch, whatever the width of the input, and y is that wide; every output
\* sample is the first that many entries of an input sample, and the first
\* output sample is one of the longest.
C10_WorkingLength ==
    bpc = "done" =>
        LET n == Len(batch)
            w == WorkingLength
        IN /\ Len(out.x) = w
           /\ \A t \in 1..w : Len(out.x[t]) = n
           /\ Len(out.y) = n
           /\ \A i \in 1..n : Len(out.y[i]) = w
           /\ \E p \in Perms(n) :
                 /\ \A i \in 1..n : OutSample(i) = SubSeq(batch[p[i]], 1, w)
                 /\ NonZeros(batch[p[1]]) = w

\* Width 2, effective lengths 0 and 1: working length 1, the longer first.
C10_Witness ==
    /\ bpc = "done"
    /\ Len(batch) = 2
    /\ Len(batch[1]) = 2
    /\ NonZeros(batch[1]) = 0
    /\ NonZeros(batch[2]) = 1
    /\ RightPadded(batch[2])
    /\ Len(out.x) = 1
    /\ out.x[1][1] # 0
    /\ Len(out.y[1]) = 1

\* ---------------------------------------------------------- predict: claims

\* C9 as stated: for a model whose output is laid out (time, batch, vocab),
\* the input is the sequence as one sample with time leading, and the result
\* has one entry per vocabulary entry v, the exponential of the output at the
\* last time step, sample 0, entry v.
C9_AsStated ==
    (ppc = "done" /\ layout = "time_batch_vocab") =>
        /\ fed.shape = <<Len(indices), 1>>
        /\ \A t \in 1..Len(indices) : fed.at[<<t, 1>>] = indices[t]
        /\ result.shape = <<VocabSize>>
        /\ \A v \in 1..VocabSize :
              result.at[<<v>>] = Exp(logits.at[<<Len(indices), 1, v>>])

\* C9: for a model whose output is laid out (batch, vocab, time), the input
\* is the sequence as one sample with time leading, and the result has one
\* entry per vocabulary entry v, the exponential of the output for sample 0,
\* entry v, at the last time step.
C9_LastStepDistribution ==
    (ppc = "done" /\ layout = "batch_vocab_time") =>
        /\ fed.shape = <<Len(indices), 1>>
        /\ \A t \in 1..Len(indices) : fed.at[<<t, 1>>] = indices[t]
        /\ result.shape = <<VocabSize>>
        /\ \A v \in 1..VocabSize :
              result.at[<<v>>] = Exp(logits.at[<<1, v, Len(indices)>>])

\* Two time steps whose distributions differ in every entry.
C9_Witness ==
    /\ ppc = "done"
    /\ layout = "batch_vocab_time"
    /\ Len(indices) = 2
    /\ \A v \in 1..VocabSize : logits.at[<<1, v, 1>>] # logits.at[<<1, v, 2>>]
    /\ result.shape = <<VocabSize>>
    /\ result.at[<<1>>] # result.at[<<2>>]

=============================================================================
